---------------------------- MODULE Spec2Model ----------------------------
(***************************************************************************)
(* A model of nvram.c (powerpc-utils): the partition directory, the header *)
(* checksum, the partition lookup and the rewrite of a name=value record.  *)
(*                                                                         *)
(* Bytes are naturals 0..255, a buffer is a sequence of bytes, and a       *)
(* pointer into the nvram buffer is the byte offset from nvram->data.      *)
(* Multi-byte header fields are read as the PowerPC host reads them        *)
(* (big-endian), which is how the code's native loads see the wire format. *)
(***************************************************************************)
EXTENDS Integers, Sequences, FiniteSets, TLC

VARIABLES
    layout,    \* the partitions the image was laid out from (never read by the code)
    data,      \* nvram->data: the buffer loaded once by nvram_read
    store,     \* the bytes of the backing file behind nvram->fd
    fdpos,     \* the file offset of nvram->fd
    parts,     \* nvram->parts[0 .. nparts-1], as offsets into data
    nwarn,     \* warn_msg calls made by nvram_parse_partitions
    p_start,   \* the walk pointer of nvram_parse_partitions
    pc,        \* where the run is: "parsing", "ready", "crashed", "spinning";
               \* "checksum" in the specification that only applies checksum()
    nupd,      \* update_of_config_var calls made so far in this run
    op         \* the last operation applied, its inputs and what it returned

vars == <<layout, data, store, fdpos, parts, nwarn, p_start, pc, nupd, op>>

(***************************************************************************)
(* Bounds of the model.                                                    *)
(***************************************************************************)
\* the most partitions a buffer of Init is laid out from
MaxPartitions == 2
\* the entries nvram->parts[] holds before a further store runs off the array
MaxParts == 4

(***************************************************************************)
(* Program constants.                                                      *)
(***************************************************************************)
NVRAM_BLOCK_SIZE == 16
\* sizeof(struct partition_header), sizeof(phead.name)
HeaderSize == 16
NameSize == 12
\* NULL, for a partition pointer
NullPtr == -1

Min(S) == CHOOSE x \in S : \A y \in S : x <= y

(***************************************************************************)
(* Bytes and C strings.                                                    *)
(***************************************************************************)
At(buf, off) == buf[off + 1]

Slice(buf, off, n) == [i \in 1..n |-> buf[off + i]]

Zeros(n) == [i \in 1..n |-> 0]

\* the n bytes a C string argument shows to strncmp: its characters, then NUL
CStr(s, n) == [i \in 1..n |-> IF i <= Len(s) THEN s[i] ELSE 0]

\* the n bytes at buf+off
BufStr(buf, off, n) == [i \in 1..n |-> IF off + i <= Len(buf) THEN buf[off + i] ELSE 0]

\* strncmp(a, b, n) == 0, comparing up to n bytes and stopping after a NUL
RECURSIVE StrncmpFrom(_, _, _, _)
StrncmpFrom(a, b, i, n) ==
    IF i > n THEN TRUE
    ELSE IF a[i] # b[i] THEN FALSE
    ELSE IF a[i] = 0 THEN TRUE
    ELSE StrncmpFrom(a, b, i + 1, n)

StrncmpEq(a, b, n) == StrncmpFrom(a, b, 1, n)

\* strlen(buf + off)
RECURSIVE StrlenAt(_, _)
StrlenAt(buf, off) ==
    IF off >= Len(buf) THEN 0
    ELSE IF buf[off + 1] = 0 THEN 0
    ELSE 1 + StrlenAt(buf, off + 1)

(***************************************************************************)
(* struct partition_header: signature, checksum, length, name[12].         *)
(***************************************************************************)
HdrSignature(buf, off) == At(buf, off)
HdrChecksum(buf, off) == At(buf, off + 1)
HdrLength(buf, off) == At(buf, off + 2) * 256 + At(buf, off + 3)
HdrName(buf, off) == Slice(buf, off + 4, NameSize)
\* unsigned short *sp = (unsigned short *)p->name;  sp[k], k = 0..5
HdrNameWord(buf, off, k) == At(buf, off + 4 + 2 * k) * 256 + At(buf, off + 5 + 2 * k)

(***************************************************************************)
(* checksum()                                                              *)
(***************************************************************************)
\* c_sum and c_sum2 are unsigned int: the header sum is below 2^19 and every
\* later value below 2^25, so the 32-bit arithmetic never wraps.

\* c_sum = p->signature + p->length + sp[0] + ... + sp[5]
HeaderSum(buf, off) ==
    HdrSignature(buf, off) + HdrLength(buf, off)
    + HdrNameWord(buf, off, 0) + HdrNameWord(buf, off, 1)
    + HdrNameWord(buf, off, 2) + HdrNameWord(buf, off, 3)
    + HdrNameWord(buf, off, 4) + HdrNameWord(buf, off, 5)

\* c_sum = ((c_sum & 0xffff) + (c_sum >> 16)) & 0xffff
Fold16(c) == ((c % 65536) + (c \div 65536)) % 65536

\* a plausible slip: the two bytes are added and the carry is dropped
Fold8_nocarry(c) == ((c \div 256) + (c % 256)) % 256

\* c_sum2 = (c_sum >> 8) + (c_sum << 8);  c_sum = ((c_sum + c_sum2) >> 8) & 0xff
Fold8(c) ==
    LET c_sum2 == (c \div 256) + (c * 256)
    IN  ((c + c_sum2) \div 256) % 256

checksum(buf, off) == Fold8(Fold16(HeaderSum(buf, off)))


(***************************************************************************)
(* The inputs: nvram images laid out from a pool of partitions.            *)
(***************************************************************************)
s_common == <<99, 111, 109, 109, 111, 110>>
s_ofconfig == <<111, 102, 45, 99, 111, 110, 102, 105, 103>>
s_setupcfg == <<105, 98, 109, 44, 115, 101, 116, 117, 112, 99, 102, 103>>
s_zero == <<122, 101, 114, 111>>
s_private == <<112, 114, 105, 118, 97, 116, 101>>

\* name_value_parts[]
name_value_parts == <<s_common, s_setupcfg, s_ofconfig>>

\* "a=1" "b=2" "" and seven bytes of zero slack
PayloadA == <<97, 61, 49, 0, 98, 61, 50, 0, 0>> \o Zeros(7)
\* "b=2" "a=1" "a=3" "" and three bytes of stale, non-zero slack
PayloadB == <<98, 61, 50, 0, 97, 61, 49, 0, 97, 61, 51, 0, 0, 120, 61, 57>>

\* the 16 header bytes; ckdelta # 0 stores a checksum that is wrong by ckdelta
MkHeader(sig, ckdelta, len, name) ==
    LET h0 == <<sig, 0, len \div 256, len % 256>> \o CStr(name, NameSize)
    IN  [h0 EXCEPT ![2] = (checksum(h0, 0) + ckdelta) % 256]

PoolIds == {"A", "B", "S", "Z"}

\* A, B: two-block "common" partitions, B with a wrong stored checksum;
\* S: a header-only "ibm,setupcfg", its name filling all twelve bytes;
\* Z: a header whose length field is 0;
\* X: a two-block partition "private" holding "a=7", for print_of_config
PoolSpec(id) ==
    CASE id = "A" -> [sig |-> 112, ckdelta |-> 0, len |-> 2, name |-> s_common,
                      payload |-> PayloadA]
      [] id = "B" -> [sig |-> 112, ckdelta |-> 7, len |-> 2, name |-> s_common,
                      payload |-> PayloadB]
      [] id = "S" -> [sig |-> 80, ckdelta |-> 0, len |-> 1, name |-> s_setupcfg,
                      payload |-> <<>>]
      [] id = "Z" -> [sig |-> 112, ckdelta |-> 0, len |-> 0, name |-> s_zero,
                      payload |-> <<>>]
      [] id = "X" -> [sig |-> 112, ckdelta |-> 0, len |-> 2, name |-> s_private,
                      payload |-> <<97, 61, 55, 0, 0>> \o Zeros(11)]

Pool(id) ==
    LET q == PoolSpec(id)
    IN  MkHeader(q.sig, q.ckdelta, q.len, q.name) \o q.payload

RECURSIVE Image(_)
Image(l) == IF l = <<>> THEN <<>> ELSE Pool(Head(l)) \o Image(Tail(l))

\* A partition without payload is never the last one: the record scans of
\* update_of_config_var then stay inside the buffer.
Layouts ==
    {l \in UNION {[1..n -> PoolIds] : n \in 1..MaxPartitions} : l[Len(l)] # "S"}

NoOp == [kind |-> "none"]

Init ==
    /\ layout \in Layouts
    /\ data = Image(layout)
    /\ store = data
    /\ fdpos = Len(data)
    /\ parts = <<>>
    /\ nwarn = 0
    /\ p_start = 0
    /\ pc = "parsing"
    /\ nupd = 0
    /\ op = NoOp

nbytes == Len(data)
nparts == Len(parts)

(***************************************************************************)
(* nvram_parse_partitions: one action per turn of its while loop.          *)
(***************************************************************************)
\* a plausible slip: the walk stops at the first checksum mismatch
ParseAdvance_stop(off) ==
    IF checksum(data, off) # HdrChecksum(data, off) THEN nbytes
    ELSE off + HdrLength(data, off) * NVRAM_BLOCK_SIZE

\* p_start += phead->length * NVRAM_BLOCK_SIZE
ParseAdvance(off) == off + HdrLength(data, off) * NVRAM_BLOCK_SIZE

ParseStep ==
    /\ pc = "parsing"
    /\ p_start < nbytes
    /\ p_start + HeaderSize <= nbytes
    /\ nparts < MaxParts
    /\ parts' = Append(parts, p_start)
    /\ nwarn' = IF checksum(data, p_start) # HdrChecksum(data, p_start)
                THEN nwarn + 1 ELSE nwarn
    /\ p_start' = ParseAdvance(p_start)
    /\ UNCHANGED <<layout, data, store, fdpos, pc, nupd, op>>

\* nvram->parts[nvram->nparts++] past the end of parts[]: undefined behaviour
ParseOverflow ==
    /\ pc = "parsing"
    /\ p_start < nbytes
    /\ nparts >= MaxParts
    /\ pc' \in {"crashed", "spinning"}
    /\ UNCHANGED <<layout, data, store, fdpos, parts, nwarn, p_start, nupd, op>>

ParseDone ==
    /\ pc = "parsing"
    /\ p_start >= nbytes
    /\ pc' = "ready"
    /\ UNCHANGED <<layout, data, store, fdpos, parts, nwarn, p_start, nupd, op>>

(***************************************************************************)
(* nvram_find_partition                                                    *)
(***************************************************************************)
NullName == [null |-> TRUE, s |-> <<>>]
Name(s) == [null |-> FALSE, s |-> s]

\* a plausible slip: the search resumes at start itself
StartIndex_same(start) ==
    IF start = NullPtr THEN 0
    ELSE IF \E i \in 0..(nparts - 1) : parts[i + 1] = start
         THEN Min({i \in 0..(nparts - 1) : parts[i + 1] = start})
         ELSE nparts

\* for (i = 0; i < nvram->nparts; i++) if (nvram->parts[i] == start) break;  i++;
StartIndex(start) ==
    IF start = NullPtr THEN 0
    ELSE (IF \E i \in 0..(nparts - 1) : parts[i + 1] = start
          THEN Min({i \in 0..(nparts - 1) : parts[i + 1] = start})
          ELSE nparts) + 1

\* signature == '\0' || signature == phead->signature, then
\* name == NULL || strncmp(name, phead->name, sizeof(phead->name)) == 0
PartMatches(off, signature, name) ==
    /\ signature = 0 \/ signature = HdrSignature(data, off)
    /\ name.null \/ StrncmpEq(CStr(name.s, NameSize), HdrName(data, off), NameSize)

RECURSIVE FindFrom(_, _, _)
FindFrom(i, signature, name) ==
    IF i >= nparts THEN NullPtr
    ELSE IF PartMatches(parts[i + 1], signature, name) THEN parts[i + 1]
    ELSE FindFrom(i + 1, signature, name)

nvram_find_partition(signature, name, start) ==
    FindFrom(StartIndex(start), signature, name)

FindSignatures == {0, 112}
\* the last name is "ibm,setupcfg" with a thirteenth character
FindNames == {NullName, Name(s_common), Name(s_setupcfg), Name(s_setupcfg \o <<88>>)}

Find ==
    /\ pc = "ready"
    /\ \E signature \in FindSignatures, name \in FindNames,
          start \in {NullPtr, nbytes} \cup {parts[i] : i \in 1..nparts} :
          op' = [kind |-> "find", signature |-> signature, name |-> name,
                 start |-> start,
                 result |-> nvram_find_partition(signature, name, start)]
    /\ UNCHANGED <<layout, data, store, fdpos, parts, nwarn, p_start, pc, nupd>>

(***************************************************************************)
(* nvram_find_fd_partition, on the bytes of the backing file.              *)
(***************************************************************************)
\* read(nvram->fd, &phead, sizeof(phead)) at pos: the bytes it returns
ReadLen(file, pos) ==
    IF Len(file) - pos >= HeaderSize THEN HeaderSize
    ELSE IF Len(file) > pos THEN Len(file) - pos
    ELSE 0

\* a plausible slip: the header the read has consumed is not taken off the skip
FdSkipOffset_whole(length, len) == length * NVRAM_BLOCK_SIZE

\* int offset = phead.length * NVRAM_BLOCK_SIZE - len;
FdSkipOffset(length, len) == length * NVRAM_BLOCK_SIZE - len

\* The while loop, from file offset pos.  rc 0: found, the descriptor is back
\* at pos; rc -1: the function fails; rc -2: offset is -len, the same header
\* is read again and the loop never ends.
RECURSIVE FdWalk(_, _, _)
FdWalk(file, pos, name) ==
    LET len == ReadLen(file, pos)
    IN  IF len = 0 THEN [rc |-> -1, pos |-> pos]
        ELSE IF len # HeaderSize THEN [rc |-> -1, pos |-> pos + len]
        ELSE IF StrncmpEq(HdrName(file, pos), name, NameSize)
             THEN [rc |-> 0, pos |-> pos + len - len]
        ELSE IF HdrLength(file, pos) = 0 THEN [rc |-> -2, pos |-> pos]
        ELSE FdWalk(file, pos + len + FdSkipOffset(HdrLength(file, pos), len), name)

\* ioerr: an lseek or a read of the descriptor fails
nvram_find_fd_partition(file, name, ioerr) ==
    IF ioerr THEN [rc |-> -1, pos |-> 0] ELSE FdWalk(file, 0, name)

FdNames == {s_common, s_setupcfg, s_ofconfig}

\* nvram_find_fd_partition called on the open descriptor
FindOnDevice ==
    /\ pc = "ready"
    /\ \E name \in FdNames, ioerr \in BOOLEAN :
          LET fd == nvram_find_fd_partition(store, CStr(name, NameSize), ioerr)
          IN  /\ fdpos' = fd.pos
              /\ pc' = IF fd.rc = -2 THEN "spinning" ELSE pc
              /\ op' = [kind |-> "find_fd", name |-> name, ioerr |-> ioerr,
                        rc |-> fd.rc, pos |-> fd.pos]
    /\ UNCHANGED <<layout, data, store, parts, nwarn, p_start, nupd>>

\* the two lookups side by side, on a buffer and a file of the same bytes
NextFind == ParseStep \/ ParseOverflow \/ ParseDone \/ Find \/ FindOnDevice

SpecFind == Init /\ [][NextFind]_vars

(***************************************************************************)
(* update_of_config_var                                                    *)
(***************************************************************************)
\* config_name_len = strstr(config_var, "=") - config_var;  config_name_len++;
ConfigNameLen(config_var) == Min({i \in 1..Len(config_var) : config_var[i] = 61})

\* strncmp(data_offset, config_var, config_name_len) == 0
VarMatches(off, config_var) ==
    LET n == ConfigNameLen(config_var)
    IN  StrncmpEq(BufStr(data, off, n), CStr(config_var, n), n)

\* a plausible slip, and what the function's header comment announces: a
\* variable that is not found is added at the end of the records
RECURSIVE ScanVar_append(_, _)
ScanVar_append(off, config_var) ==
    IF At(data, off) = 0 THEN off
    ELSE IF VarMatches(off, config_var) THEN off
    ELSE ScanVar_append(off + StrlenAt(data, off) + 1, config_var)

\* while (*data_offset != '\0') { if (strncmp(...) == 0) { found = 1; break; }
\*                                else data_offset += strlen(data_offset) + 1; }
\* the matching record's offset, or NullPtr for !found
RECURSIVE ScanVar(_, _)
ScanVar(off, config_var) ==
    IF At(data, off) = 0 THEN NullPtr
    ELSE IF VarMatches(off, config_var) THEN off
    ELSE ScanVar(off + StrlenAt(data, off) + 1, config_var)

\* while (*data_offset != '\0') data_offset += strlen(data_offset) + 1;
RECURSIVE SkipRecords(_)
SkipRecords(off) ==
    IF At(data, off) = 0 THEN off
    ELSE SkipRecords(off + StrlenAt(data, off) + 1)

\* !((new_part_offset + strlen(config_var) + 1) >= new_part_end)
FitsAssignment(new_part_offset, config_var, part_size) ==
    ~(new_part_offset + Len(config_var) + 1 >= part_size)

\* a plausible slip: >= for >, an exact fit is refused
FitsTail_strict(new_part_offset, taillen, part_size) ==
    ~(new_part_offset + taillen >= part_size)

\* !((new_part_offset + (data_offset - tmp_offset)) > new_part_end)
FitsTail(new_part_offset, taillen, part_size) ==
    ~(new_part_offset + taillen > part_size)

\* a plausible slip: the tail is copied from the matched record on, so the
\* old record follows the new one
BuildImage_keepold(phead, part_size, prefix, tmp_offset, taillen, config_var) ==
    LET cvend == prefix + Len(config_var) + 1
        from == phead + prefix
    IN  [i \in 1..part_size |->
            IF i <= prefix THEN data[phead + i]
            ELSE IF i < cvend THEN config_var[i - prefix]
            ELSE IF i = cvend THEN 0
            ELSE IF i <= cvend + taillen /\ from + (i - cvend) <= nbytes
                 THEN data[from + (i - cvend)]
            ELSE 0]

\* memset(new_part, 0, part_size); memcpy(new_part, phead, prefix);
\* strncpy(new_part_offset, config_var, strlen(config_var)); *new_part_offset++ = '\0';
\* memcpy(new_part_offset, tmp_offset, data_offset - tmp_offset);
BuildImage(phead, part_size, prefix, tmp_offset, taillen, config_var) ==
    LET cvend == prefix + Len(config_var) + 1
    IN  [i \in 1..part_size |->
            IF i <= prefix THEN data[phead + i]
            ELSE IF i < cvend THEN config_var[i - prefix]
            ELSE IF i = cvend THEN 0
            ELSE IF i <= cvend + taillen THEN data[tmp_offset + (i - cvend)]
            ELSE 0]

\* a plausible slip: the header keeps the checksum it had
StoreChecksum_keep(new_part) == new_part

\* new_phead->checksum = checksum(new_phead);
StoreChecksum(new_part) == [new_part EXCEPT ![2] = checksum(new_part, 0)]

\* Everything up to the seek: which partition, the record, the two room checks
\* and the replacement image.  msg names the err_msg that ends the call:
\* "no_partition", "no_var", "no_room", "corrupt", or "none"; "overrun" is
\* the copy of the prefix running off the new image.
UpdatePlan(config_var, pname) ==
    LET phead == nvram_find_partition(0, Name(pname), NullPtr)
    IN  IF phead = NullPtr
        THEN [msg |-> "no_partition", phead |-> NullPtr, part_size |-> 0, image |-> <<>>]
        ELSE
        LET part_size == HdrLength(data, phead) * NVRAM_BLOCK_SIZE
            found == ScanVar(phead + HeaderSize, config_var)
            fail(m) == [msg |-> m, phead |-> phead, part_size |-> part_size, image |-> <<>>]
        IN  IF found = NullPtr THEN fail("no_var")
            ELSE
            LET prefix == found - phead
                new_part_offset == prefix + Len(config_var) + 1
                tmp_offset == found + StrlenAt(data, found) + 1
                data_offset == SkipRecords(tmp_offset)
                taillen == (data_offset + 1) - tmp_offset
            IN  \* memcpy(new_part, phead, prefix) with prefix > part_size
                \* runs off new_part: undefined behaviour
                IF prefix > part_size THEN fail("overrun")
                ELSE IF ~FitsAssignment(prefix, config_var, part_size) THEN fail("no_room")
                ELSE IF At(data, data_offset - 1) # 0 /\ At(data, data_offset) # 0
                     THEN fail("corrupt")
                ELSE IF ~FitsTail(new_part_offset, taillen, part_size) THEN fail("no_room")
                ELSE [msg |-> "none", phead |-> phead, part_size |-> part_size,
                      image |-> StoreChecksum(BuildImage(phead, part_size, prefix,
                                                         tmp_offset, taillen, config_var))]

\* what write(nvram->fd, new_part, part_size) may return
WriteKinds == {"error", "nothing", "two", "mid", "allbutone", "all"}
WriteReturn(kind, part_size) ==
    CASE kind = "error" -> -1
      [] kind = "nothing" -> 0
      [] kind = "two" -> 2
      [] kind = "mid" -> part_size \div 2 + 4
      [] kind = "allbutone" -> part_size - 1
      [] kind = "all" -> part_size

\* the file after write() has put the first n bytes of buf at offset pos
WriteAt(file, pos, buf, n) ==
    IF n <= 0 THEN file
    ELSE LET newlen == IF pos + n > Len(file) THEN pos + n ELSE Len(file)
         IN  [i \in 1..newlen |->
                 IF i > pos /\ i <= pos + n THEN buf[i - pos]
                 ELSE IF i <= Len(file) THEN file[i]
                 ELSE 0]

\* a plausible slip: the descriptor is left behind the header that was read
SeekTarget_afterheader(found_pos) == found_pos + HeaderSize

\* lseek(nvram->fd, -len, SEEK_CUR): back to the start of the header
SeekTarget(found_pos) == found_pos

\* if (len != part_size) err_msg(...);  free(new_part); return 0;
UpdateReturn(len, part_size) == 0

\* the assignments tried: "a=2", "a=22", "a=22222222", "a=222222222",
\* "b=22222222", "b=222222222" and "c=2", whose name no record has
Twos(k) == [i \in 1..k |-> 50]
Assignments ==
    {<<97, 61>> \o Twos(k) : k \in {1, 2, 8, 9}}
    \cup {<<98, 61>> \o Twos(k) : k \in {8, 9}}
    \cup {<<99, 61>> \o Twos(1)}
UpdateNames == {s_common, s_setupcfg, s_ofconfig}

\* main() calls update_of_config_var at most once in a run
Update ==
    /\ pc = "ready"
    /\ nupd = 0
    /\ \E config_var \in Assignments, pname \in UpdateNames :
          LET plan == UpdatePlan(config_var, pname)
              base == [kind |-> "update", config_var |-> config_var, pname |-> pname,
                       phead |-> plan.phead, part_size |-> plan.part_size]
          IN  IF plan.msg # "none"
              THEN /\ op' = base @@ [rc |-> -1, msg |-> plan.msg, image |-> <<>>,
                                     nwrites |-> 0, woff |-> NullPtr, wret |-> 0]
                   /\ UNCHANGED <<store, fdpos>>
              ELSE
              \E ioerr \in BOOLEAN :
              LET fd == nvram_find_fd_partition(store, HdrName(plan.image, 0), ioerr)
              IN  /\ fd.rc # -2
                  /\ IF fd.rc # 0
                     THEN /\ op' = base @@ [rc |-> -1, msg |-> "fd_error",
                                            image |-> plan.image, nwrites |-> 0,
                                            woff |-> NullPtr, wret |-> 0]
                          /\ fdpos' = fd.pos
                          /\ UNCHANGED store
                     ELSE
                     \E wkind \in WriteKinds :
                     LET woff == SeekTarget(fd.pos)
                         len == WriteReturn(wkind, plan.part_size)
                     IN  /\ store' = WriteAt(store, woff, plan.image, len)
                         /\ fdpos' = IF len > 0 THEN woff + len ELSE woff
                         /\ op' = base @@
                                  [rc |-> UpdateReturn(len, plan.part_size),
                                   msg |-> IF len # plan.part_size THEN "short_write"
                                           ELSE "none",
                                   image |-> plan.image, nwrites |-> 1,
                                   woff |-> woff, wret |-> len]
    /\ nupd' = nupd + 1
    /\ UNCHANGED <<layout, data, parts, nwarn, p_start, pc>>

Next == ParseStep \/ ParseOverflow \/ ParseDone \/ Find \/ Update

Spec == Init /\ [][Next]_vars

(***************************************************************************)
(* checksum() applied to headers drawn from bounded sets.                  *)
(***************************************************************************)
CkSignatures == {0, 112, 255}
CkLengths == {0, 1, 2, 65535}
CkWords == {0, 25455, 65535}

InitChecksum ==
    /\ layout = <<>>
    /\ data = <<>>
    /\ store = <<>>
    /\ fdpos = 0
    /\ parts = <<>>
    /\ nwarn = 0
    /\ p_start = 0
    /\ pc = "checksum"
    /\ nupd = 0
    /\ \E sig \in CkSignatures, len \in CkLengths, w \in [1..6 -> CkWords] :
          op = [kind |-> "header", signature |-> sig, length |-> len, words |-> w]

\* the 16 bytes of the header: big-endian length, the words as name bytes
HeaderBytes(sig, len, w) ==
    <<sig, 0, len \div 256, len % 256>>
    \o [i \in 1..NameSize |->
           IF i % 2 = 1 THEN w[(i + 1) \div 2] \div 256 ELSE w[i \div 2] % 256]

ChecksumCall ==
    /\ pc = "checksum"
    /\ op.kind = "header"
    /\ op' = [kind |-> "checksum", signature |-> op.signature, length |-> op.length,
              words |-> op.words,
              result |-> checksum(HeaderBytes(op.signature, op.length, op.words), 0)]
    /\ UNCHANGED <<layout, data, store, fdpos, parts, nwarn, p_start, pc, nupd>>

NextChecksum == ChecksumCall

SpecChecksum == InitChecksum /\ [][NextChecksum]_vars

(***************************************************************************)
(* print_of_config, on images that may hold a partition of another name.   *)
(***************************************************************************)

ReadPoolIds == PoolIds \cup {"X"}

ReadLayouts ==
    {l \in UNION {[1..n -> ReadPoolIds] : n \in 1..MaxPartitions} : l[Len(l)] # "S"}

InitRead ==
    /\ layout \in ReadLayouts
    /\ data = Image(layout)
    /\ store = data
    /\ fdpos = Len(data)
    /\ parts = <<>>
    /\ nwarn = 0
    /\ p_start = 0
    /\ pc = "parsing"
    /\ nupd = 0
    /\ op = NoOp

\* while (*data != '\0') { printf("%s\n", data); data += strlen(data) + 1; }
RECURSIVE PrintRecords(_)
PrintRecords(off) ==
    IF At(data, off) = 0 THEN <<>>
    ELSE <<Slice(data, off, StrlenAt(data, off))>>
         \o PrintRecords(off + StrlenAt(data, off) + 1)

\* the lines printed and the return value
print_of_config_part(pname) ==
    LET phead == nvram_find_partition(0, Name(pname), NullPtr)
    IN  IF phead = NullPtr THEN [rc |-> -1, out |-> <<>>]
        ELSE [rc |-> 0, out |-> PrintRecords(phead + HeaderSize)]

\* (data[varlen] == '=') && strncmp(config_var, data, varlen) == 0
RecordIsVar(off, config_var) ==
    LET varlen == Len(config_var)
    IN  /\ BufStr(data, off + varlen, 1)[1] = 61
        /\ StrncmpEq(CStr(config_var, varlen), BufStr(data, off, varlen), varlen)

\* a plausible slip: the scan stops at the first record of that name
RECURSIVE PrintVar_first(_, _)
PrintVar_first(off, config_var) ==
    IF At(data, off) = 0 THEN <<>>
    ELSE LET n == StrlenAt(data, off)
             varlen == Len(config_var)
         IN  IF RecordIsVar(off, config_var)
             THEN <<Slice(data, off + varlen + 1, n - varlen - 1)>>
             ELSE PrintVar_first(off + n + 1, config_var)

\* a plausible slip: the records are read from the device, not from the
\* buffer the run loaded
RECURSIVE PrintVar_store(_, _)
PrintVar_store(off, config_var) ==
    IF At(store, off) = 0 THEN <<>>
    ELSE LET n == StrlenAt(store, off)
             varlen == Len(config_var)
         IN  (IF /\ BufStr(store, off + varlen, 1)[1] = 61
                 /\ StrncmpEq(CStr(config_var, varlen), BufStr(store, off, varlen), varlen)
              THEN <<Slice(store, off + varlen + 1, n - varlen - 1)>>
              ELSE <<>>)
             \o PrintVar_store(off + n + 1, config_var)

\* while (*data != '\0') { if (...) { printf("%s\n", data + varlen + 1); rc = 0; }
\*                         data += strlen(data) + 1; }
\* the values printed
RECURSIVE PrintVar(_, _)
PrintVar(off, config_var) ==
    IF At(data, off) = 0 THEN <<>>
    ELSE LET n == StrlenAt(data, off)
             varlen == Len(config_var)
         IN  (IF RecordIsVar(off, config_var)
              THEN <<Slice(data, off + varlen + 1, n - varlen - 1)>>
              ELSE <<>>)
             \o PrintVar(off + n + 1, config_var)

\* the values printed for config_var from the partitions names[i..], and the
\* names nvram_find_partition was asked for
RECURSIVE PrintVarAcross(_, _, _)
PrintVarAcross(names, i, config_var) ==
    IF i > Len(names) THEN <<>>
    ELSE LET phead == nvram_find_partition(0, Name(names[i]), NullPtr)
         IN  (IF phead = NullPtr THEN <<>>
              ELSE PrintVar(phead + HeaderSize, config_var))
             \o PrintVarAcross(names, i + 1, config_var)

\* for (i = 0; ...) if (strcmp(pname, name_value_parts[i]) == 0)
NameValueIndex(pname) == {i \in 1..Len(name_value_parts) : name_value_parts[i] = pname}

\* rc, the lines printed, the names the table was asked for, err_msg called
print_of_config(config_var, pname) ==
    IF config_var.null
    THEN IF pname.null
         THEN [rc |-> -1,
               out |-> print_of_config_part(name_value_parts[1]).out
                       \o print_of_config_part(name_value_parts[2]).out
                       \o print_of_config_part(name_value_parts[3]).out,
               asked |-> name_value_parts, err |-> FALSE]
         ELSE IF NameValueIndex(pname.s) # {}
              THEN [rc |-> 0, out |-> print_of_config_part(pname.s).out,
                    asked |-> <<pname.s>>, err |-> FALSE]
              ELSE [rc |-> -1, out |-> <<>>, asked |-> <<>>, err |-> TRUE]
    ELSE IF pname.null
         THEN LET out == PrintVarAcross(name_value_parts, 1, config_var.s)
              IN  [rc |-> IF out # <<>> THEN 0 ELSE -1, out |-> out,
                   asked |-> name_value_parts, err |-> FALSE]
         ELSE LET phead == nvram_find_partition(0, pname, NullPtr)
              IN  IF phead = NullPtr
                  THEN [rc |-> -1, out |-> <<>>, asked |-> <<pname.s>>, err |-> TRUE]
                  ELSE LET out == PrintVar(phead + HeaderSize, config_var.s)
                       IN  [rc |-> IF out # <<>> THEN 0 ELSE -1, out |-> out,
                            asked |-> <<pname.s>>, err |-> FALSE]

\* NULL, "a", "c"
ReadVars == {NullName, Name(<<97>>), Name(<<99>>)}
ReadNames == {NullName, Name(s_common), Name(s_setupcfg), Name(s_private)}

PrintConfig ==
    /\ pc = "ready"
    /\ \E config_var \in ReadVars, pname \in ReadNames :
          op' = [kind |-> "read", config_var |-> config_var, pname |-> pname,
                 res |-> print_of_config(config_var, pname)]
    /\ UNCHANGED <<layout, data, store, fdpos, parts, nwarn, p_start, pc, nupd>>

NextRead == ParseStep \/ ParseOverflow \/ ParseDone \/ PrintConfig

SpecRead == InitRead /\ [][NextRead]_vars

(***************************************************************************)
(* dump_vpd, one action per loop test and per turn of its loops.           *)
(*                                                                         *)
(* data holds the bytes from phead + 1 on: the payload of the ibm,vpd      *)
(* partition, then what follows it in the nvram buffer.  p_start is the    *)
(* cursor p, op.p_end the declared end phead + phead->length,              *)
(* op.maxread the highest offset read so far.  plain char is unsigned on   *)
(* PowerPC, so a byte is read as 0..255.                                   *)
(***************************************************************************)
\* the longest payload text drawn
MaxVpdLen == 3

Max2(a, b) == IF a >= b THEN a ELSE b

\* 0x82: identification string descriptor; 0x79: VPD end tag
VpdIdTag == 130
VpdEndTag == 121

VpdAlphabet == {0, 1, VpdEndTag, VpdIdTag}

\* 0x82 0x02 'I' 'D' 0x79;
\* 0x82, the string "I" with its two-byte length, end tag, checksum byte;
\* the same with a keyword block of one field "AB" of four bytes, the end tag
\* and the checksum byte being the last two bytes of the block of 16
VpdSamples ==
    { <<130, 2, 73, 68, 121>>,
      <<130, 1, 0, 73, 121, 0>>,
      <<130, 1, 0, 73, 144, 7, 0, 65, 66, 4, 49, 50, 51, 52, 121, 0>> }

VpdTexts ==
    UNION {[1..n -> VpdAlphabet] : n \in 0..MaxVpdLen} \cup VpdSamples

\* the payload: the text, zero-filled to whole blocks
VpdPayload(text) ==
    LET n == ((Len(text) + NVRAM_BLOCK_SIZE - 1) \div NVRAM_BLOCK_SIZE) * NVRAM_BLOCK_SIZE
    IN  [i \in 1..n |-> IF i <= Len(text) THEN text[i] ELSE 0]

\* what follows the partition in the buffer: nothing, or the next header's start
VpdTrailers == {<<>>, <<0, 0>>, <<112, 121, 0, 1>>}

InitVpd ==
    /\ layout \in VpdTexts
    /\ \E t \in VpdTrailers : data = VpdPayload(layout) \o t
    /\ store = <<>>
    /\ fdpos = 0
    /\ parts = <<>>
    /\ nwarn = 0
    /\ p_start = 0
    /\ pc = "vpd_test"
    /\ nupd = 0
    /\ op = [kind |-> "vpd", p_end |-> Len(VpdPayload(layout)), maxread |-> -1,
             warned |-> FALSE, rc |-> 1]

\* *p, for p inside the buffer
VpdByte(off) == IF off < nbytes THEN data[off + 1] ELSE 0

\* a read at or past nvram->data + nvram->nbytes is undefined behaviour: the
\* run dies, never returns, or returns after reading whatever lies there
VpdUndefined == {"crashed", "spinning", "vpd_done"}

\* *p && p < p_end
VpdGoesOn(p, p_end) == VpdByte(p) # 0 /\ p < p_end

\* one step's effect on the cursor and on op.maxread; a step that has read
\* outside the buffer ends in one of the undefined outcomes
VpdStep(p, hi, to) ==
    /\ op' = [op EXCEPT !.maxread = Max2(op.maxread, hi)]
    /\ IF hi >= nbytes
       THEN pc' \in VpdUndefined /\ p_start' = p_start
       ELSE pc' = to /\ p_start' = p
    /\ UNCHANGED <<layout, data, store, fdpos, parts, nwarn, nupd>>

\* while (*p && p < p_end)
VpdTest ==
    /\ pc = "vpd_test"
    /\ VpdStep(p_start, p_start,
               IF VpdGoesOn(p_start, op.p_end) THEN "vpd_body" ELSE "vpd_after")

\* getvalue(p, value): len = p[0] | p[1] << 8; memcpy(buf, p + 2, len);
\* the cursor after it and the highest offset read.  value[] is 4096 bytes:
\* a len that overruns it has also read outside the buffers drawn here.
getvalue(p) ==
    LET len == VpdByte(p) + 256 * VpdByte(p + 1)
    IN  [p |-> p + 2 + len, hi |-> p + 1 + len]

\* the body of the outer loop: if (*p == 0x82) ... else if (*p == 0) break;
\* any other byte leaves p where it is
VpdBody ==
    /\ pc = "vpd_body"
    /\ IF VpdByte(p_start) = VpdIdTag
       THEN LET v == getvalue(p_start + 1)
            IN  VpdStep(v.p, v.hi, "vpd_block")
       ELSE IF VpdByte(p_start) = 0
            THEN VpdStep(p_start, p_start, "vpd_after")
            ELSE VpdStep(p_start, p_start, "vpd_test")

\* while (p < vpd_endp) p = printVPDfield(p, show_all);
\* printVPDfield reads p[0], p[1], the length p[2] and that many bytes
RECURSIVE VpdFields(_, _, _)
VpdFields(p, vpd_endp, hi) ==
    IF p >= vpd_endp \/ hi >= nbytes THEN [p |-> p, hi |-> hi]
    ELSE LET len == VpdByte(p + 2)
         IN  VpdFields(p + 3 + len, vpd_endp, Max2(hi, p + 2 + len))

\* one test of while (*p != 0x79) and, when it holds, one keyword block:
\* p++; vpdlen = p[0] | p[1] << 8; p += 2; the fields up to p + vpdlen.
\* On the end tag: p++; p++; and back to the outer loop.
VpdBlock ==
    /\ pc = "vpd_block"
    /\ IF VpdByte(p_start) # VpdEndTag
       THEN LET vpdlen == VpdByte(p_start + 1) + 256 * VpdByte(p_start + 2)
                f == VpdFields(p_start + 3, p_start + 3 + vpdlen, p_start + 2)
            IN  VpdStep(f.p, f.hi, "vpd_block")
       ELSE VpdStep(p_start + 2, p_start, "vpd_test")

\* if (*p && p < p_end) warn_msg("found unknown descriptor byte ..."); return 0;
VpdAfter ==
    /\ pc = "vpd_after"
    /\ op' = [op EXCEPT !.maxread = Max2(op.maxread, p_start),
                        !.warned = VpdGoesOn(p_start, op.p_end),
                        !.rc = 0]
    /\ pc' \in IF p_start >= nbytes THEN VpdUndefined ELSE {"vpd_done"}
    /\ UNCHANGED <<layout, data, store, fdpos, parts, nwarn, p_start, nupd>>

NextVpd == VpdTest \/ VpdBody \/ VpdBlock \/ VpdAfter

SpecVpd == InitVpd /\ [][NextVpd]_vars

(***************************************************************************)
(* open_of_path and resolve_of_node.                                       *)
(*                                                                         *)
(* A name is a sequence of characters; data holds the device tree as the   *)
(* set of the paths under DEVICE_TREE that exist, a path being a sequence  *)
(* of names.  op.path is the argument ofpath, p_start the offset of the    *)
(* cursor ofpath into it (NullPtr for NULL), parts the names appended to   *)
(* resolved_ofpath so far.                                                 *)
(***************************************************************************)
n_pci == <<"p", "c", "i">>
n_pci8 == <<"p", "c", "i", "@", "8">>
n_pci9 == <<"p", "c", "i", "@", "9">>
n_at8 == <<"@", "8">>
n_atd == <<"@", "d">>
n_eth == <<"e", "t", "h">>
n_ethd == <<"e", "t", "h", "@", "d">>
n_mac == <<"m", "a", "c">>
n_macd0 == <<"m", "a", "c", "@", "d", "0">>
n_ide == <<"i", "d", "e">>

OfTops == {n_pci, n_pci8, n_pci9}
OfLeaves == {n_atd, n_ethd, n_macd0, n_ide}

\* the tree with the nodes T under the root and the nodes L under each of them
OfTree(T, L) == {<<t>> : t \in T} \cup {<<t, l>> : t \in T, l \in L}

OfTrees == {OfTree(T, L) : T \in SUBSET OfTops, L \in SUBSET OfLeaves}

\* the paths asked for, as their segments
OfSegments ==
    { <<n_pci, n_atd>>, <<n_pci, n_eth>>, <<n_at8, n_mac>>, <<n_pci8, n_ide>>,
      <<n_pci>> }

\* "/" seg1 "/" seg2 ...
RECURSIVE OfJoin(_)
OfJoin(segs) == IF segs = <<>> THEN <<>> ELSE <<"/">> \o Head(segs) \o OfJoin(Tail(segs))

InitOf ==
    /\ layout \in OfSegments
    /\ data \in OfTrees
    /\ store = <<>>
    /\ fdpos = 0
    /\ parts = <<>>
    /\ nwarn = 0
    /\ p_start = 0
    /\ pc = "of_walk"
    /\ nupd = 0
    /\ op = [kind |-> "of", path |-> OfJoin(layout), rc |-> 0, err |-> "none",
             fd |-> -1, opened |-> FALSE]

\* strchr(path + from, '/'), as an offset into path
Strchr(path, from) ==
    LET hits == {i \in from..(Len(path) - 1) : path[i + 1] = "/"}
    IN  IF hits = {} THEN NullPtr ELSE Min(hits)

\* node = ofpath + 1; ofpath = strchr(node + 1, '/');
\* nodelen = ofpath - node, or strlen(node) when ofpath is NULL
OfNode(path, ofpath) ==
    LET node == ofpath + 1
        nxt == Strchr(path, node + 1)
        nodelen == IF nxt = NullPtr THEN Len(path) - node ELSE nxt - node
    IN  [next |-> nxt, name |-> SubSeq(path, node + 1, node + nodelen)]

\* the names directly under the path parent
OfChildren(parent) ==
    {q[Len(q)] : q \in {r \in data : Len(r) = Len(parent) + 1
                                     /\ SubSeq(r, 1, Len(parent)) = parent}}

\* a name against a glob pattern in which "*" stands for any run of characters
RECURSIVE GlobMatch(_, _)
GlobMatch(pat, s) ==
    IF pat = <<>> THEN s = <<>>
    ELSE IF Head(pat) = "*"
         THEN GlobMatch(Tail(pat), s) \/ (s # <<>> /\ GlobMatch(pat, Tail(s)))
         ELSE s # <<>> /\ Head(s) = Head(pat) /\ GlobMatch(Tail(pat), Tail(s))

\* glob(parent "/" pattern): pglob.gl_pathv, as the set of the names matched
glob(parent, pattern) == {c \in OfChildren(parent) : GlobMatch(pattern, c)}

\* "%s/*%.*s*" for a unit address, "%s/%.*s@*" for a node name
OfPattern(node) ==
    IF node[1] = "@" THEN <<"*">> \o node \o <<"*">> ELSE node \o <<"@", "*">>

\* a plausible slip: of several matches one is taken
PickMatch_any(pathv) ==
    [rc |-> 0, resolved |-> CHOOSE c \in pathv : TRUE, err |-> "none"]

\* if (pglob.gl_pathc > 1) err_msg("Ambiguous node name ..."), else
\* *resolved = strdup(pglob.gl_pathv[0] + strlen(parent))
PickMatch(pathv) ==
    IF Cardinality(pathv) > 1 THEN [rc |-> -1, resolved |-> <<>>, err |-> "ambiguous"]
    ELSE [rc |-> 0, resolved |-> CHOOSE c \in pathv : TRUE, err |-> "none"]

\* what the file system does to a call: "stat": stat fails with an errno
\* other than ENOENT; "glob": glob returns an error other than GLOB_NOMATCH
OfIoErrors == {"none", "stat", "glob"}

resolve_of_node(parent, node, ioerr) ==
    IF ioerr = "stat" THEN [rc |-> -1, resolved |-> <<>>, err |-> "stat"]
    ELSE IF Append(parent, node) \in data
         THEN [rc |-> 0, resolved |-> node, err |-> "none"]
    ELSE IF ioerr = "glob" THEN [rc |-> -1, resolved |-> <<>>, err |-> "glob"]
    ELSE LET pathv == glob(parent, OfPattern(node))
         IN  IF pathv = {} THEN [rc |-> -1, resolved |-> <<>>, err |-> "notfound"]
             ELSE PickMatch(pathv)

\* one turn of while (ofpath); a failed turn ends open_of_path with fd = -1
OfResolve ==
    /\ pc = "of_walk"
    /\ p_start # NullPtr
    /\ \E ioerr \in OfIoErrors :
          LET seg == OfNode(op.path, p_start)
              r == resolve_of_node(parts, seg.name, ioerr)
          IN  IF r.rc < 0
              THEN /\ op' = [op EXCEPT !.rc = r.rc, !.err = r.err]
                   /\ pc' = "of_done"
                   /\ UNCHANGED <<parts, p_start>>
              ELSE /\ parts' = Append(parts, r.resolved)
                   /\ p_start' = seg.next
                   /\ pc' = IF seg.next = NullPtr THEN "of_open" ELSE "of_walk"
                   /\ op' = op
    /\ UNCHANGED <<layout, data, store, fdpos, nwarn, nupd>>

\* if (rc >= 0) fd = open(resolved_ofpath, O_RDONLY);
OfOpen ==
    /\ pc = "of_open"
    /\ \E fd \in {-1, 3} :
          op' = [op EXCEPT !.fd = IF parts \in data THEN fd ELSE -1, !.opened = TRUE]
    /\ pc' = "of_done"
    /\ UNCHANGED <<layout, data, store, fdpos, parts, nwarn, p_start, nupd>>

NextOf == OfResolve \/ OfOpen

SpecOf == InitOf /\ [][NextOf]_vars

(***************************************************************************)
(* nvram_find_fd_partition, one action per system call, on streams that    *)
(* no parse has looked at.  store is the stream behind the descriptor,     *)
(* fdpos its offset, p_start the offset the header in phead was read at.   *)
(***************************************************************************)
FdLayouts == UNION {[1..n -> PoolIds] : n \in 1..MaxPartitions}

\* the bytes missing at the end of the stream
FdCuts == {0, 8}

FdWalkNames == {s_common, s_setupcfg, s_zero}

InitFd ==
    /\ layout \in FdLayouts
    /\ \E cut \in FdCuts : store = SubSeq(Image(layout), 1, Len(Image(layout)) - cut)
    /\ data = <<>>
    /\ fdpos \in {0, Len(store)}
    /\ parts = <<>>
    /\ nwarn = 0
    /\ p_start = 0
    /\ pc = "fd_start"
    /\ nupd = 0
    /\ \E name \in FdWalkNames :
          op = [kind |-> "fd_walk", name |-> name, rc |-> 1, len |-> 0]

FdReturn(rc) ==
    /\ pc' = "fd_done"
    /\ op' = [op EXCEPT !.rc = rc]

\* lseek(nvram->fd, SEEK_SET, 0)
FdStart ==
    /\ pc = "fd_start"
    /\ \E ok \in BOOLEAN :
          IF ok THEN fdpos' = 0 /\ pc' = "fd_read" /\ op' = op
          ELSE FdReturn(-1) /\ fdpos' = fdpos
    /\ UNCHANGED <<layout, data, store, parts, nwarn, p_start, nupd>>

\* len = read(nvram->fd, &phead, sizeof(phead)) and the tests on len and name
FdRead ==
    /\ pc = "fd_read"
    /\ \E len \in {-1, ReadLen(store, fdpos)} :
          /\ fdpos' = IF len > 0 THEN fdpos + len ELSE fdpos
          /\ p_start' = fdpos
          /\ IF len # HeaderSize THEN FdReturn(-1)
             ELSE /\ op' = [op EXCEPT !.len = len]
                  /\ pc' = IF StrncmpEq(HdrName(store, fdpos), CStr(op.name, NameSize),
                                        NameSize)
                           THEN "fd_back" ELSE "fd_skip"
    /\ UNCHANGED <<layout, data, store, parts, nwarn, nupd>>

\* lseek(nvram->fd, offset, SEEK_CUR) past the partition that did not match
FdSkip ==
    /\ pc = "fd_skip"
    /\ \E ok \in BOOLEAN :
          IF ok
          THEN /\ fdpos' = fdpos + FdSkipOffset(HdrLength(store, p_start), op.len)
               /\ pc' = "fd_read"
               /\ op' = op
          ELSE FdReturn(-1) /\ fdpos' = fdpos
    /\ UNCHANGED <<layout, data, store, parts, nwarn, p_start, nupd>>

\* lseek(nvram->fd, -len, SEEK_CUR); return 0;
FdBack ==
    /\ pc = "fd_back"
    /\ \E ok \in BOOLEAN :
          IF ok THEN FdReturn(0) /\ fdpos' = SeekTarget(fdpos - op.len)
          ELSE FdReturn(-1) /\ fdpos' = fdpos
    /\ UNCHANGED <<layout, data, store, parts, nwarn, p_start, nupd>>

NextFd == FdStart \/ FdRead \/ FdSkip \/ FdBack

SpecFd == InitFd /\ [][NextFd]_vars

(***************************************************************************)
(* nvram_parse_partitions on buffers of any size: nvram->nbytes is the     *)
(* size of the file or the -s argument, and need not be a whole number of  *)
(* blocks.                                                                 *)
(***************************************************************************)
\* the bytes missing at the end of the image
ParseCuts == {0, 4, 14, 20}

InitParse ==
    /\ layout \in FdLayouts
    /\ \E cut \in ParseCuts :
          /\ cut < Len(Image(layout))
          /\ data = SubSeq(Image(layout), 1, Len(Image(layout)) - cut)
    /\ store = data
    /\ fdpos = Len(data)
    /\ parts = <<>>
    /\ nwarn = 0
    /\ p_start = 0
    /\ pc = "parsing"
    /\ nupd = 0
    /\ op = NoOp

\* phead->length of a header that starts inside the buffer and ends outside
\* it: the field itself, or whatever lies behind the buffer
PartialLengths(off) ==
    IF off + 4 <= nbytes THEN {HdrLength(data, off)} ELSE {0, 1, 2}

\* A turn of the loop on a header that starts inside the buffer and ends
\* behind nvram->data + nvram->nbytes: the entry is stored, then checksum()
\* reads behind the buffer, which is undefined behaviour: the run dies, or
\* goes on with whatever checksum and length it has read.
ParseStepPartial ==
    /\ pc = "parsing"
    /\ p_start < nbytes
    /\ p_start + HeaderSize > nbytes
    /\ nparts < MaxParts
    /\ parts' = Append(parts, p_start)
    /\ \/ /\ pc' = "crashed"
          /\ UNCHANGED <<nwarn, p_start>>
       \/ /\ pc' = pc
          /\ nwarn' \in {nwarn, nwarn + 1}
          /\ \E length \in PartialLengths(p_start) :
                p_start' = p_start + length * NVRAM_BLOCK_SIZE
    /\ UNCHANGED <<layout, data, store, fdpos, nupd, op>>

NextParse == ParseStep \/ ParseStepPartial \/ ParseOverflow \/ ParseDone

SpecParse == InitParse /\ [][NextParse]_vars

(***************************************************************************)
(* dump_errlog, up to the end of the header.                               *)
(*                                                                         *)
(* data holds the 16-bit words from phead + 1 on, as the big-endian host   *)
(* reads them: the payload of the ibm,err-log partition, op.p_max words,   *)
(* then what follows it in the nvram buffer.  A pointer into the words is  *)
(* its index from p, NullPtr for 0.                                        *)
(***************************************************************************)
\* the size of cpu_regs[] less one; nvram.h sets it, the model keeps it small
MAX_CPUS == 2

\* p_max < 4
ErrlogMinWords == 4

\* phead->length of the partition, and the words that follow it in the buffer
ErrLengths == {1, 2, 3}
ErrTrailers == {0, 8}
ErrCpuCounts == {0, 1, 2, 3, 65535}
ErrOffsets == {0, 4, 65535}

\* p_max = p_end - p, in 16-bit words
ErrPMax(length) == (length * NVRAM_BLOCK_SIZE - HeaderSize) \div 2

InitErrlog ==
    /\ layout = <<>>
    /\ \E length \in ErrLengths, tr \in ErrTrailers, ncpu \in ErrCpuCounts,
          sysoff \in ErrOffsets, fill \in ErrOffsets :
          /\ data = [i \in 1..(ErrPMax(length) + tr) |->
                        IF i = 2 THEN sysoff ELSE IF i = 3 THEN ncpu ELSE fill]
          /\ op = [kind |-> "errlog", p_max |-> ErrPMax(length)]
    /\ store = <<>>
    /\ fdpos = 0
    /\ parts = <<>>
    /\ nwarn = 0
    /\ p_start = 0
    /\ pc = "errlog"
    /\ nupd = 0

\* ntohs(p[i]), for i inside the buffer
ErrWord(i) == IF i < nbytes THEN data[i + 1] ELSE 0

\* offset = ntohs(p[i])/2+1;  offset + i < p_max ? p + offset + i : 0
ErrResolve(i, p_max) ==
    LET offset == ErrWord(i) \div 2 + 1
    IN  IF offset + i < p_max THEN offset + i ELSE NullPtr

\* the header as dump_errlog reads it: the indices read, the count printed,
\* the count kept, and the pointers
ErrlogHeader(p_max) ==
    LET num_cpus == ErrWord(2)
        kept == IF num_cpus > MAX_CPUS THEN MAX_CPUS ELSE num_cpus
        i == 2 + num_cpus
    IN  [rc |-> 0,
         reads |-> {0, 1, 2} \cup {3 + cpu : cpu \in 0..(kept - 1)}
                   \cup {i + 1, i + 2, i + 3, i + 4},
         checkstop_count |-> ErrWord(0) \div 256,
         reported |-> num_cpus,
         num_cpus |-> kept,
         sys_regs |-> ErrResolve(1, p_max),
         cpu_regs |-> [cpu \in 1..kept |-> ErrResolve(2 + cpu, p_max)],
         memctrl_data |-> ErrResolve(i + 2, p_max),
         ioctrl_data |-> ErrResolve(i + 4, p_max)]

\* if (p_max < 4) { err_msg("Corrupt ibm,err-log partition in nvram\n"); return -1; }
dump_errlog(p_max) ==
    IF p_max < ErrlogMinWords
    THEN [rc |-> -1, reads |-> {}, checkstop_count |-> 0, reported |-> 0, num_cpus |-> 0,
          sys_regs |-> NullPtr, cpu_regs |-> <<>>, memctrl_data |-> NullPtr,
          ioctrl_data |-> NullPtr]
    ELSE ErrlogHeader(p_max)

\* a read of p[i] behind nvram->data + nvram->nbytes is undefined behaviour:
\* the run dies, or goes on with whatever it has read
ErrlogDecode ==
    /\ pc = "errlog"
    /\ LET r == dump_errlog(op.p_max)
       IN  /\ op' = [kind |-> "errlog_done", p_max |-> op.p_max, res |-> r]
           /\ pc' \in IF \E i \in r.reads : i >= nbytes
                      THEN {"crashed", "errlog_done"} ELSE {"errlog_done"}
    /\ UNCHANGED <<layout, data, store, fdpos, parts, nwarn, p_start, nupd>>

NextErrlog == ErrlogDecode

SpecErrlog == InitErrlog /\ [][NextErrlog]_vars

(***************************************************************************)
(* dump_eventscanlog.                                                      *)
(*                                                                         *)
(* A 32-bit word is kept as its two 16-bit halves, [hi, lo].  The payload  *)
(* of the ibm,es-logs partition is not laid out byte by byte: op holds     *)
(* phead->length, the count word p[0] and the rule the log header words    *)
(* p[1], p[2], ... follow.                                                 *)
(***************************************************************************)
MAX_EVENTLOGS == 100

EsLengths == {0, 1, 2, 3, 4096, 4097, 65535}
EsCountHi == {0, 1, 32768, 65535}
EsCountLo == {0, 1, 2, 3, 100, 101, 65535}
\* flags and type, the first start offset, the distance of the starts
EsRules == { [hi |-> 0, base |-> 8, stride |-> 16],
             [hi |-> 33089, base |-> 65000, stride |-> 300] }

InitEventScan ==
    /\ layout = <<>>
    /\ data = <<>>
    /\ store = <<>>
    /\ fdpos = 0
    /\ parts = <<>>
    /\ nwarn = 0
    /\ p_start = 0
    /\ pc = "es"
    /\ nupd = 0
    /\ \E length \in EsLengths, chi \in EsCountHi, clo \in EsCountLo, rule \in EsRules :
          op = [kind |-> "es", length |-> length, count |-> [hi |-> chi, lo |-> clo],
                rule |-> rule]

\* ntohl(p[i]) for i >= 1 of the payload in o
EsWord(o, i) ==
    [hi |-> o.rule.hi, lo |-> (o.rule.base + (i - 1) * o.rule.stride) % 65536]

\* p_max = p_end - p, in 32-bit words
EsPMax(length) == (length * NVRAM_BLOCK_SIZE - HeaderSize) \div 4

\* int num_logs = ntohl(*p): the word as a signed 32-bit int
ToInt(w) == IF w.hi >= 32768 THEN (w.hi - 65536) * 65536 + w.lo ELSE w.hi * 65536 + w.lo

\* a uint32_t value as a word
ToWord(v) == [hi |-> v \div 65536, lo |-> v % 65536]

\* the two clamps of num_logs and the warnings they give
EsClamp(num_logs, p_max) ==
    LET n1 == IF num_logs > MAX_EVENTLOGS THEN MAX_EVENTLOGS ELSE num_logs
        n2 == IF n1 > p_max - 1 THEN p_max - 1 ELSE n1
    IN  [n |-> n2,
         warns |-> (IF num_logs > MAX_EVENTLOGS THEN 1 ELSE 0)
                   + (IF n1 > p_max - 1 THEN 1 ELSE 0)]

\* int end = loghdr[lognum+1] & 0xffff
EsEnd(w) == w.lo

\* loghdr[i] after the fill loop and the artificial last entry
EsLoghdr(o, n, p_max, i) == IF i = n THEN ToWord(p_max * 4) ELSE EsWord(o, i + 1)

\* rc, the count printed, the count used, the warnings, the indices of
\* loghdr[] written and read, and the byte range of each entry
dump_eventscanlog(o) ==
    LET p_max == EsPMax(o.length)
    IN  IF p_max < 1
        THEN [rc |-> -1, printed |-> 0, n |-> 0, warns |-> 0, written |-> {},
              read |-> {}, ranges |-> <<>>]
        ELSE LET num_logs == ToInt(o.count)
                 c == EsClamp(num_logs, p_max)
             IN  [rc |-> 0, printed |-> num_logs, n |-> c.n, warns |-> c.warns,
                  written |-> {k \in 0..MAX_EVENTLOGS : k < c.n} \cup {c.n},
                  read |-> UNION {{k, k + 1} : k \in {j \in 0..MAX_EVENTLOGS : j < c.n}},
                  ranges |-> [k \in 1..c.n |->
                                 [flags |-> EsLoghdr(o, c.n, p_max, k - 1).hi \div 256,
                                  type |-> EsLoghdr(o, c.n, p_max, k - 1).hi % 256,
                                  start |-> EsLoghdr(o, c.n, p_max, k - 1).lo,
                                  end |-> EsEnd(EsLoghdr(o, c.n, p_max, k))]]]

\* loghdr[num_logs] with num_logs < 0 is a store in front of the array:
\* undefined behaviour, the run dies or goes on
EventScanDecode ==
    /\ pc = "es"
    /\ LET r == dump_eventscanlog(op)
       IN  /\ op' = [kind |-> "es_done", length |-> op.length, count |-> op.count,
                     rule |-> op.rule, res |-> r]
           /\ pc' \in IF \E i \in r.written : i < 0 \/ i > MAX_EVENTLOGS
                      THEN {"crashed", "es_done"} ELSE {"es_done"}
    /\ UNCHANGED <<layout, data, store, fdpos, parts, nwarn, p_start, nupd>>

NextEventScan == EventScanDecode

SpecEventScan == InitEventScan /\ [][NextEventScan]_vars

(***************************************************************************)
(* Two runs of main on one device: a run that updates and may print, then  *)
(* a run that loads what the first one left on the device and prints.       *)
(***************************************************************************)
\* NULL, "a", "b", "c"
SessionVars == {NullName, Name(<<97>>), Name(<<98>>), Name(<<99>>)}

\* if (update_config_var) ... update_of_config_var(&nvram, ..., config_pname)
\* if (print_config_var) print_of_config(&nvram, of_config_var, config_pname)
\* in one run, on the buffer and the table that run loaded
PrintAfterUpdate ==
    /\ pc = "ready"
    /\ op.kind = "update"
    /\ \E config_var \in SessionVars :
          op' = [kind |-> "print", upd |-> op, config_var |-> config_var,
                 pname |-> Name(op.pname),
                 res |-> print_of_config(config_var, Name(op.pname))]
    /\ UNCHANGED <<layout, data, store, fdpos, parts, nwarn, p_start, pc, nupd>>

\* the next run: open, nvram_read from offset 0 into a new buffer, and
\* nvram_parse_partitions from p_start = 0 with nparts = 0
Reload ==
    /\ pc = "ready"
    /\ op.kind \in {"update", "print"}
    /\ data' = store
    /\ fdpos' = Len(store)
    /\ parts' = <<>>
    /\ nwarn' = 0
    /\ p_start' = 0
    /\ pc' = "parsing"
    /\ op' = [kind |-> "loaded", upd |-> IF op.kind = "update" THEN op ELSE op.upd]
    /\ UNCHANGED <<layout, store, nupd>>

\* print_of_config in the run that followed the update
PrintReloaded ==
    /\ pc = "ready"
    /\ op.kind \in {"loaded", "reread"}
    /\ \E config_var \in SessionVars, pname \in UpdateNames :
          op' = [kind |-> "reread", upd |-> op.upd, config_var |-> config_var,
                 pname |-> Name(pname),
                 res |-> print_of_config(config_var, Name(pname))]
    /\ UNCHANGED <<layout, data, store, fdpos, parts, nwarn, p_start, pc, nupd>>

NextSession ==
    \/ ParseStep \/ ParseOverflow \/ ParseDone
    \/ Update \/ PrintAfterUpdate \/ Reload \/ PrintReloaded

SpecSession == Init /\ [][NextSession]_vars

(***************************************************************************)
(* The properties.                                                         *)
(***************************************************************************)

\* C1: nvram_parse_partitions, on reaching a header whose length is 0, ends
\* the parse as corrupt without entering the header, and every other turn of
\* the walk moves the offset strictly forward.
C1_ZeroLengthRejected ==
    [][(pc = "parsing" /\ p_start < nbytes)
        => IF HdrLength(data, p_start) = 0
           THEN pc' = "corrupt" /\ parts' = parts
           ELSE p_start' > p_start]_vars

\* the image is N partitions back to back, each of length >= 1 and as many
\* blocks long as its header says
BackToBack == \A k \in 1..Len(layout) :
    /\ PoolSpec(layout[k]).len >= 1
    /\ PoolSpec(layout[k]).len * NVRAM_BLOCK_SIZE = Len(Pool(layout[k]))

\* the offset at which the k-th partition of the layout was put
RECURSIVE LaidAt(_)
LaidAt(k) == IF k = 1 THEN 0 ELSE LaidAt(k - 1) + Len(Pool(layout[k - 1]))

WrongChecksums(n) == Cardinality({k \in 1..n : PoolSpec(layout[k]).ckdelta # 0})

\* C2: on an image of N back-to-back partitions the walk never crashes,
\* enters the partitions one by one in ascending offset order with one warning
\* per wrong stored checksum, and ends with exactly the N entries.
C2_ParseRecoversAll ==
    BackToBack =>
        /\ pc \in {"parsing", "ready"}
        /\ nparts <= Len(layout)
        /\ \A k \in 1..nparts : parts[k] = LaidAt(k)
        /\ \A k \in 1..(nparts - 1) : parts[k] < parts[k + 1]
        /\ nwarn = WrongChecksums(nparts)
        /\ (pc = "ready" => nparts = Len(layout))

\* a finished parse of two partitions that warned about the first one's checksum
C2_Witness ==
    /\ BackToBack
    /\ pc = "ready"
    /\ Len(layout) = 2
    /\ PoolSpec(layout[1]).ckdelta # 0
    /\ nparts = 2
    /\ nwarn >= 1

\* the documented fold, on the header's fields: the sum, its bits above 16
\* added to its low 16 bits once, then the two bytes of that added together
\* with carryin == TRUE: the carry out of the byte sum is added back in
RefSum(sig, len, w) == sig + len + w[1] + w[2] + w[3] + w[4] + w[5] + w[6]
RefS1(sig, len, w) ==
    LET S == RefSum(sig, len, w)
    IN  ((S % 65536) + (S \div 65536)) % 65536
RefFold(sig, len, w, carryin) ==
    LET S1 == RefS1(sig, len, w)
        T == (S1 \div 256) + (S1 % 256)
    IN  IF carryin THEN ((T % 256) + (T \div 256)) % 256 ELSE T % 256

\* C3 as stated: the result is the high and the low byte of S1 added together
\* and masked to one byte.
C3_PlainByteSum ==
    op.kind = "checksum" =>
        op.result = RefFold(op.signature, op.length, op.words, FALSE)

\* C3 as amended: the carry out of the sum of the two bytes is added back in
\* before the mask.
C3_EndAroundCarry ==
    op.kind = "checksum" =>
        /\ op.result \in 0..255
        /\ op.result = RefFold(op.signature, op.length, op.words, TRUE)

\* a header whose sum spills over 16 bits and whose two bytes carry
C3_Witness ==
    /\ op.kind = "checksum"
    /\ RefSum(op.signature, op.length, op.words) >= 65536
    /\ LET S1 == RefS1(op.signature, op.length, op.words)
       IN  (S1 \div 256) + (S1 % 256) >= 256

\* the text of a header's name field: its bytes before the first NUL
FieldText(off) ==
    LET f == HdrName(data, off)
        z == {i \in 1..NameSize : f[i] = 0}
    IN  IF z = {} THEN f ELSE SubSeq(f, 1, Min(z) - 1)

\* the entry at index i (from 1) is one find() is asked for
Wanted(i, signature, name) ==
    /\ signature = 0 \/ HdrSignature(data, parts[i]) = signature
    /\ \/ name.null
       \/ FieldText(parts[i]) =
            SubSeq(name.s, 1, IF Len(name.s) > NameSize THEN NameSize ELSE Len(name.s))

\* the lowest-indexed wanted entry after resumeAfter, or none
FirstWantedAfter(signature, name, start) ==
    LET from == IF start = NullPtr THEN 1
                ELSE 1 + CHOOSE i \in 1..nparts : parts[i] = start
        hits == {i \in from..nparts : Wanted(i, signature, name)}
    IN  IF hits = {} THEN NullPtr ELSE parts[Min(hits)]

CommonEntries == {i \in 1..nparts : FieldText(parts[i]) = s_common}

\* C4: find returns the lowest-indexed matching entry after resumeAfter (from
\* the first entry when resumeAfter is absent), or none; with two "common"
\* partitions, resumed after the first it returns the second and resumed after
\* the second it returns none.
C4_FindResumes ==
    (op.kind = "find" /\ (op.start = NullPtr \/ \E i \in 1..nparts : parts[i] = op.start)) =>
        /\ op.result = FirstWantedAfter(op.signature, op.name, op.start)
        /\ (/\ Cardinality(CommonEntries) = 2
            /\ op.signature = 0
            /\ op.name = Name(s_common)
            /\ op.start # NullPtr) =>
               LET first == parts[Min(CommonEntries)]
                   second == parts[Min(CommonEntries \ {Min(CommonEntries)})]
               IN  /\ op.start = first => op.result = second
                   /\ op.start = second => op.result = NullPtr

\* find for "common", resumed after the first "common", returned the second
C4_Witness ==
    /\ op.kind = "find"
    /\ Cardinality(CommonEntries) = 2
    /\ op.signature = 0
    /\ op.name = Name(s_common)
    /\ op.start = parts[Min(CommonEntries)]
    /\ op.result # NullPtr
    /\ op.result # op.start

(***************************************************************************)
(* A partition as the list of its records, for the properties of update.   *)
(***************************************************************************)
\* the records from off on, each without its NUL, up to the empty record
RECURSIVE RecordsFrom(_)
RecordsFrom(off) ==
    LET n == StrlenAt(data, off)
    IN  IF n = 0 THEN <<>> ELSE <<Slice(data, off, n)>> \o RecordsFrom(off + n + 1)

\* the records as stored: each followed by its NUL
RECURSIVE Flat(_)
Flat(recs) == IF recs = <<>> THEN <<>> ELSE Head(recs) \o <<0>> \o Flat(Tail(recs))

\* the name portion of an assignment: the text before its first '='
AsgName(config_var) == SubSeq(config_var, 1, ConfigNameLen(config_var) - 1)

\* record r has the name portion nm
HasName(r, nm) ==
    /\ Len(r) > Len(nm)
    /\ SubSeq(r, 1, Len(nm)) = nm
    /\ r[Len(nm) + 1] = 61

\* the partition update's step 1 locates: the first one with that name
NamedPart(pname) == FirstWantedAfter(0, Name(pname), NullPtr)

\* for the update recorded in o: the partition, its records, the indices of
\* the records named like the assignment, and the byte counts of the layout
\* the update is to produce
UpdView(o) ==
    LET P == NamedPart(o.pname)
        recs == IF P = NullPtr THEN <<>> ELSE RecordsFrom(P + HeaderSize)
        hits == {k \in 1..Len(recs) : HasName(recs[k], AsgName(o.config_var))}
        k == IF hits = {} THEN 0 ELSE Min(hits)
        before == IF k = 0 THEN recs ELSE SubSeq(recs, 1, k - 1)
        after == IF k = 0 THEN <<>> ELSE SubSeq(recs, k + 1, Len(recs))
    IN  [P |-> P, recs |-> recs, hits |-> hits, k |-> k,
         before |-> before, after |-> after,
         cap |-> IF P = NullPtr THEN 0 ELSE HdrLength(data, P) * NVRAM_BLOCK_SIZE,
         used |-> HeaderSize + Len(Flat(recs)) + 1,
         m |-> HeaderSize + Len(Flat(before)),
         need |-> HeaderSize + Len(Flat(before)) + Len(o.config_var) + 1
                  + Len(Flat(after)) + 1]

C6_InsufficientSpace ==
    (op.kind = "update" /\ UpdView(op).P # NullPtr /\ UpdView(op).hits # {}) =>
        /\ (op.msg = "no_room") <=> (UpdView(op).need > UpdView(op).cap)
        /\ op.msg = "no_room" =>
              /\ op.rc = -1
              /\ op.nwrites = 0
              /\ data = Image(layout)
              /\ store = Image(layout)

\* an update refused for one byte too many
C6_Witness ==
    /\ op.kind = "update"
    /\ UpdView(op).hits # {}
    /\ op.msg = "no_room"
    /\ op.nwrites = 0
    /\ UpdView(op).need = UpdView(op).cap + 1

\* C7: the image update hands to write() is length*16 bytes: the header with
\* at most the checksum byte changed, the records before the first match, the
\* new assignment and its NUL, the records after the match in order, the
\* empty record, then zeros; the bytes write() took are the first bytes of it.
C7_ImageLayout ==
    (op.kind = "update" /\ op.nwrites = 1) =>
        LET v == UpdView(op)
            body == Flat(v.before) \o op.config_var \o <<0>> \o Flat(v.after) \o <<0>>
        IN  /\ v.hits # {}
            /\ Len(op.image) = v.cap
            /\ \A i \in (1..HeaderSize) \ {2} : op.image[i] = data[v.P + i]
            /\ HeaderSize + Len(body) <= v.cap
            /\ SubSeq(op.image, HeaderSize + 1, HeaderSize + Len(body)) = body
            /\ \A i \in (HeaderSize + Len(body) + 1)..v.cap : op.image[i] = 0
            /\ \A i \in 1..op.wret : store[op.woff + i] = op.image[i]

\* a full write that replaced the first of two records of the same name, with
\* a record before it
C7_Witness ==
    /\ op.kind = "update"
    /\ op.nwrites = 1
    /\ op.wret = op.part_size
    /\ Cardinality(UpdView(op).hits) = 2
    /\ UpdView(op).k > 1

\* update has written the whole image of a partition that had trailing slack
FullUpdateWithSlack ==
    /\ op.kind = "update"
    /\ op.nwrites = 1
    /\ op.wret = op.part_size
    /\ UpdView(op).used < UpdView(op).cap

StoredChecksumIsFold(P) ==
    HdrChecksum(store, P) =
        RefFold(HdrSignature(store, P), HdrLength(store, P),
                [j \in 1..6 |-> HdrNameWord(store, P, j - 1)], TRUE)

\* C8 as stated: every byte of the partition outside the modified record and
\* the header checksum byte is the same at its position before and after, and
\* the stored checksum is the checksum of the new header.
C8_FrameByPosition ==
    FullUpdateWithSlack =>
        LET v == UpdView(op)
            oldlen == Len(v.recs[v.k])
            newlen == Len(op.config_var)
            last == v.m + (IF oldlen > newlen THEN oldlen ELSE newlen)
        IN  /\ \A i \in 0..(v.cap - 1) :
                   (i # 1 /\ (i < v.m \/ i > last)) =>
                       At(store, v.P + i) = At(data, v.P + i)
            /\ StoredChecksumIsFold(v.P)

\* C8 as amended: the bytes before the modified record, the checksum byte
\* apart, are the same at their positions; the records after it and the empty
\* record are the same bytes moved by the change of the record's length; the
\* bytes after the empty record are zero; and the stored checksum is the
\* checksum of the new header.
C8_FrameByRecord ==
    FullUpdateWithSlack =>
        LET v == UpdView(op)
            oldend == v.m + Len(v.recs[v.k]) + 1
            newend == v.m + Len(op.config_var) + 1
            tail == Len(Flat(v.after)) + 1
        IN  /\ \A i \in 0..(v.m - 1) :
                   i # 1 => At(store, v.P + i) = At(data, v.P + i)
            /\ \A j \in 0..(tail - 1) :
                   At(store, v.P + newend + j) = At(data, v.P + oldend + j)
            /\ \A i \in (newend + tail)..(v.cap - 1) : At(store, v.P + i) = 0
            /\ StoredChecksumIsFold(v.P)

\* a record grown by a full update, with another record after it
C8_Witness ==
    /\ FullUpdateWithSlack
    /\ Len(op.config_var) > Len(UpdView(op).recs[UpdView(op).k])
    /\ UpdView(op).after # <<>>

\* C9: the backing store changes only in a step of update; an update writes
\* at most once, length*16 bytes requested at the offset of the partition of
\* step 1, so the store differs only in the bytes that write took, keeps its
\* size, and every header keeps its length field.
C9_OnlyUpdateWrites ==
    [][LET upd == op'.kind = "update" /\ nupd' = nupd + 1
           P == NamedPart(op'.pname)
       IN  /\ store' # store => upd
           /\ upd =>
                 /\ op'.nwrites \in {0, 1}
                 /\ op'.nwrites = 0 => store' = store
                 /\ op'.nwrites = 1 =>
                       /\ op'.woff = P
                       /\ Len(op'.image) = HdrLength(data, P) * NVRAM_BLOCK_SIZE
                       /\ op'.wret <= Len(op'.image)
                       /\ Len(store') = Len(store)
                       /\ \A i \in 0..(Len(store) - 1) :
                             IF i >= P /\ i < P + op'.wret
                             THEN At(store', i) = op'.image[i - P + 1]
                             ELSE At(store', i) = At(store, i)
                       /\ \A k \in 1..nparts :
                             HdrLength(store', parts[k]) = HdrLength(store, parts[k])
      ]_vars

\* a short write has changed bytes of the store
C9_Witness ==
    /\ op.kind = "update"
    /\ op.nwrites = 1
    /\ op.wret > 0
    /\ op.wret < op.part_size
    /\ store # data

\* C10: when write() takes fewer than length*16 bytes, update returns a
\* failure to its caller.
C10_ShortWriteFails ==
    (op.kind = "update" /\ op.nwrites = 1 /\ op.wret # op.part_size) => op.rc # 0

\* the first partition of the layout with that name, from 1, or 0
FirstNamed(name) ==
    LET hits == {k \in 1..Len(layout) : PoolSpec(layout[k]).name = name}
    IN  IF hits = {} THEN 0 ELSE Min(hits)

\* length*16 summed over the first k partitions of the layout
RECURSIVE SumLengths(_)
SumLengths(k) ==
    IF k = 0 THEN 0
    ELSE SumLengths(k - 1) + PoolSpec(layout[k]).len * NVRAM_BLOCK_SIZE

EntriesNamed(nm) == {i \in 1..nparts : FieldText(parts[i]) = nm}

NameValueNames == {s_common, s_ofconfig, s_setupcfg}

\* C12: read with a partitionName outside common, of-config, ibm,setupcfg
\* fails and prints nothing, with varName absent and with varName given, also
\* when the table holds a partition of that name; with partitionName absent
\* it asks the table for those three names only.
C12_ReadOnlyNameValueParts ==
    op.kind = "read" =>
        /\ (~op.pname.null /\ op.pname.s \notin NameValueNames) =>
               /\ op.res.rc = -1
               /\ op.res.out = <<>>
        /\ op.pname.null =>
               \A i \in 1..Len(op.res.asked) : op.res.asked[i] \in NameValueNames

\* C13: decode never reads a byte at or beyond the payload's declared end,
\* whatever the length prefixes and the field lengths say and whether or not
\* an end tag is there; on the payload 0x82 0x02 'I' 'D' 0x79 it does not
\* read past the fifth byte.
C13_VpdReadsInsidePayload ==
    op.kind = "vpd" =>
        /\ op.maxread < op.p_end
        /\ layout = <<130, 2, 73, 68, 121>> => op.maxread <= 4

\* C14: decode terminates: a descriptor byte that is neither 0x82 nor 0 is
\* reported as corrupt and ends the decoding at that byte, so the loop never
\* goes back to look at the same byte again.
C14_VpdUnknownDescriptorStops ==
    [][(pc = "vpd_body" /\ VpdByte(p_start) \notin {VpdIdTag, 0})
        => (pc' = "vpd_after" /\ p_start' = p_start)]_vars

\* name c has the run of characters seg somewhere in it
Contains(c, seg) ==
    \E k \in 0..(Len(c) - Len(seg)) : SubSeq(c, k + 1, k + Len(seg)) = seg

\* the children of prefix a segment stands for: the child of that very name
\* if there is one, else the children containing it (a segment starting with
\* "@") or named segment@...
Candidates(prefix, seg) ==
    LET kids == OfChildren(prefix)
    IN  IF seg \in kids THEN {seg}
        ELSE {c \in kids :
                 IF seg[1] = "@" THEN Contains(c, seg)
                 ELSE Len(c) > Len(seg) /\ SubSeq(c, 1, Len(seg) + 1) = seg \o <<"@">>}

\* the segments from the i-th on resolved left to right under prefix
RECURSIVE RefResolve(_, _, _)
RefResolve(segs, i, prefix) ==
    IF i > Len(segs) THEN [err |-> "none", path |-> prefix]
    ELSE LET cand == Candidates(prefix, segs[i])
         IN  IF cand = {} THEN [err |-> "notfound", path |-> prefix]
             ELSE IF Cardinality(cand) > 1 THEN [err |-> "ambiguous", path |-> prefix]
             ELSE RefResolve(segs, i + 1, Append(prefix, CHOOSE c \in cand : TRUE))

C16_SkipMovesForward ==
    [][(pc = "fd_skip" /\ pc' = "fd_read") => fdpos' > p_start]_vars

\* C17: every entry of the table has its whole 16-byte header inside
\* [0, totalLength), the first entry is at offset 0, and each further entry
\* starts at the entry before it plus that entry's length*16, behind that
\* entry's header, so that no two entries overlap.
C17_EntriesInsideBuffer ==
    /\ \A k \in 1..nparts : parts[k] >= 0 /\ parts[k] + HeaderSize <= nbytes
    /\ nparts >= 1 => parts[1] = 0
    /\ \A k \in 1..(nparts - 1) :
          /\ parts[k + 1] = parts[k] + HdrLength(data, parts[k]) * NVRAM_BLOCK_SIZE
          /\ parts[k + 1] >= parts[k] + HeaderSize

\* a pointer is absent or inside the payload
InPayloadOrAbsent(ptr, p_max) == ptr = NullPtr \/ (ptr >= 0 /\ ptr < p_max)

\* C18: decode fails as corrupt when the payload has fewer than 4 words;
\* otherwise, for every CPU count and every offset, it reads header words
\* only at indices inside the payload, keeps at most the fixed maximum of CPU
\* block pointers while the count it reports is the one in the header, and
\* every block pointer is inside the payload or absent.
C18_ErrlogStaysInPayload ==
    op.kind = "errlog_done" =>
        /\ op.res.rc = -1 <=> op.p_max < 4
        /\ op.res.rc = 0 =>
              /\ \A i \in op.res.reads : i >= 0 /\ i < op.p_max
              /\ Len(op.res.cpu_regs) <= MAX_CPUS
              /\ op.res.reported = data[3]
              /\ InPayloadOrAbsent(op.res.sys_regs, op.p_max)
              /\ InPayloadOrAbsent(op.res.memctrl_data, op.p_max)
              /\ InPayloadOrAbsent(op.res.ioctrl_data, op.p_max)
              /\ \A c \in 1..Len(op.res.cpu_regs) :
                    InPayloadOrAbsent(op.res.cpu_regs[c], op.p_max)

\* the offset words the payload can hold behind the count word, and the
\* payload's size in bytes
EsOffsetWords(length) == (length - 1) * 4 - 1
EsPayloadBytes(length) == (length - 1) * NVRAM_BLOCK_SIZE

\* the count word, an unsigned 32-bit number, is above k (k below 65536)
CountAbove(w, k) == w.hi > 0 \/ w.lo > k

\* C19: for every value of the 32-bit count word and every capacity of at
\* least one word, the entry count used is n with 0 <= n <= MAX_EVENTLOGS and
\* n <= the offset words the partition can hold, one warning is given for each
\* clamp applied, and the offset table is written and read at indices 0..n only.
C19_EventCountClamped ==
    (op.kind = "es_done" /\ op.length >= 2) =>
        LET r == op.res
            over == CountAbove(op.count, MAX_EVENTLOGS)
            n1 == IF over THEN MAX_EVENTLOGS ELSE op.count.lo
            cut == n1 > EsOffsetWords(op.length)
        IN  /\ r.rc = 0
            /\ r.n >= 0
            /\ r.n <= MAX_EVENTLOGS
            /\ r.n <= EsOffsetWords(op.length)
            /\ r.warns = (IF over THEN 1 ELSE 0) + (IF cut THEN 1 ELSE 0)
            /\ \A i \in r.written \cup r.read : i >= 0 /\ i <= r.n

\* C20: the byte range of entry i is [start_i, end_i), start_i the low 16 bits
\* of entry i's header word, end_i the start of entry i+1, and for the last
\* entry the payload capacity in bytes, for every length from 2 to 65535.
C20_EntryRanges ==
    (op.kind = "es_done" /\ op.length >= 2 /\ op.res.rc = 0) =>
        \A k \in 1..Len(op.res.ranges) :
            /\ op.res.ranges[k].start = EsWord(op, k).lo
            /\ op.res.ranges[k].end =
                  IF k < Len(op.res.ranges) THEN EsWord(op, k + 1).lo
                  ELSE EsPayloadBytes(op.length)

(***************************************************************************)
(* What a partition held when the image was laid out, for the properties   *)
(* of a read that follows an update.                                        *)
(***************************************************************************)
\* the records of a payload: the texts between NULs up to the empty record
RECURSIVE SplitRecords(_)
SplitRecords(bytes) ==
    IF bytes = <<>> \/ Head(bytes) = 0 THEN <<>>
    ELSE LET z == Min({i \in 1..Len(bytes) : bytes[i] = 0})
         IN  <<SubSeq(bytes, 1, z - 1)>> \o SplitRecords(SubSeq(bytes, z + 1, Len(bytes)))

\* the records the first partition of that name was laid out with
LaidRecords(pname) == SplitRecords(PoolSpec(layout[FirstNamed(pname)]).payload)

\* the value portions of the records named nm, in record order
RECURSIVE ValuesOf(_, _)
ValuesOf(recs, nm) ==
    IF recs = <<>> THEN <<>>
    ELSE (IF HasName(Head(recs), nm)
          THEN <<SubSeq(Head(recs), Len(nm) + 2, Len(Head(recs)))>>
          ELSE <<>>)
         \o ValuesOf(Tail(recs), nm)

\* the record list with its first record named like asg replaced by asg
RECURSIVE ReplaceFirst(_, _)
ReplaceFirst(recs, asg) ==
    IF recs = <<>> THEN <<>>
    ELSE IF HasName(Head(recs), AsgName(asg)) THEN <<asg>> \o Tail(recs)
    ELSE <<Head(recs)>> \o ReplaceFirst(Tail(recs), asg)

\* the value portion of an assignment
AsgValue(config_var) ==
    SubSeq(config_var, ConfigNameLen(config_var) + 1, Len(config_var))

\* the update recorded in u returned 0 after write() took the whole image
FullyWritten(u) == u.rc = 0 /\ u.nwrites = 1 /\ u.wret = u.part_size

\* a read from the updated partition, in the run after a fully written update
ReadBackCase ==
    /\ op.kind = "reread"
    /\ FullyWritten(op.upd)
    /\ op.pname = Name(op.upd.pname)

\* C21 as stated: after a fully written update(name=value), a read of name
\* from that partition in the next run returns value, a read of any other
\* variable returns what it returned before, and the records are in the
\* order they had.
C21_ReadBackOneValue ==
    ReadBackCase =>
        LET old == LaidRecords(op.upd.pname)
            nm == AsgName(op.upd.config_var)
        IN  IF op.config_var.null
            THEN op.res.out = ReplaceFirst(old, op.upd.config_var)
            ELSE IF op.config_var.s = nm
            THEN op.res.rc = 0 /\ op.res.out = <<AsgValue(op.upd.config_var)>>
            ELSE op.res.out = ValuesOf(old, op.config_var.s)

\* C21 as amended: a read of name returns value in the place of the first
\* value it returned before, followed by the values of the later records of
\* that name, which the update leaves where they were; a read of any other
\* variable returns what it returned before, and the records are in the
\* order they had.
C21_ReadBackFirstOfName ==
    ReadBackCase =>
        LET old == LaidRecords(op.upd.pname)
            nm == AsgName(op.upd.config_var)
            was == ValuesOf(old, nm)
        IN  /\ was # <<>>
            /\ data = store
            /\ IF op.config_var.null
               THEN op.res.out = ReplaceFirst(old, op.upd.config_var)
               ELSE IF op.config_var.s = nm
               THEN /\ op.res.rc = 0
                    /\ op.res.out = <<AsgValue(op.upd.config_var)>> \o Tail(was)
               ELSE /\ op.res.out = ValuesOf(old, op.config_var.s)
                    /\ op.res.rc = IF op.res.out = <<>> THEN -1 ELSE 0

\* "a=22" written over the first of two records named a, then read back with
\* the value of the second one behind it
C21_Witness ==
    /\ ReadBackCase
    /\ ~op.config_var.null
    /\ op.config_var.s = AsgName(op.upd.config_var)
    /\ Len(op.res.out) = 2
    /\ op.res.out[1] = <<50, 50>>
    /\ data # Image(layout)

\* the table a parse of the laid-out image builds
LaidTable == [k \in 1..Len(layout) |-> LaidAt(k)]

\* C22: whatever update returns, the run's buffer and its partition table are
\* after it what they were when loaded, while the image it built differs
\* from them only on the device; so a read in the same run after a successful
\* update returns what the partition held before the update.
C22_UpdateLeavesBufferAlone ==
    /\ op.kind \in {"update", "print"} =>
          /\ data = Image(layout)
          /\ parts = LaidTable
          /\ pc = "ready"
    /\ (op.kind = "update" /\ op.nwrites = 0) => store = data
    /\ (op.kind = "print" /\ op.upd.rc = 0) =>
          LET old == LaidRecords(op.upd.pname)
          IN  IF op.config_var.null
              THEN op.res.out = old
              ELSE /\ op.res.out = ValuesOf(old, op.config_var.s)
                   /\ op.res.rc = IF op.res.out = <<>> THEN -1 ELSE 0

\* "a=22" is on the device, and the read of a in the same run prints "1"
C22_Witness ==
    /\ op.kind = "print"
    /\ FullyWritten(op.upd)
    /\ op.upd.config_var = <<97, 61, 50, 50>>
    /\ op.config_var = Name(<<97>>)
    /\ op.res.out[1] = <<49>>
    /\ store # data
    /\ \E i \in 1..Len(store) : store[i] = 50 /\ data[i] = 49

=============================================================================
